---------------------------- MODULE Spec2Model ----------------------------
(***************************************************************************)
(* Model of src/main.py, the outgassing query server: the load-once cache  *)
(* (load_outgassing_data), the compliance calculator                       *)
(* (calculate_adjusted_tml) and the three tools search_materials,          *)
(* get_applications and search_by_application.                             *)
(*                                                                         *)
(* Percentages (TML, CVCM, WVR, the limits) are fixed-point integers in    *)
(* units of 0.1 %, match scores are integers in units of 0.1 point.  A     *)
(* float that may be missing (NaN) is a sequence: << >> is NaN, <<v>> is   *)
(* the value v.  A string that the code inspects character by character    *)
(* (Material Usage, application) is a sequence of one-character strings;   *)
(* read_csv turns an empty field into NaN, so << >> is NaN there too.      *)
(***************************************************************************)
EXTENDS Integers, Sequences, FiniteSets, TLC

VARIABLES
    disk,             \* rows of data/Outgassing_Db_rows.csv
    fileOk,           \* whether pd.read_csv(local_file) succeeds right now
    outgassing_data,  \* the module global (line 14)
    loads,            \* number of completed assignments to the global (line 25)
    everFailed,       \* a load has failed in this process (line 28 was taken)
    pc,               \* per caller: position in the tool it is running
    op,               \* per caller: the tool it is running
    df,               \* per caller: the local df (lines 58, 156, 180)
    afterFailure,     \* per caller: its call began after a load had failed
    last              \* the call that returned most recently, with its result

vars == <<disk, fileOk, outgassing_data, loads, everFailed, pc, op, df, afterFailure, last>>

-----------------------------------------------------------------------------
(* Bounds and input domains *)

\* Rows in the CSV file, and the largest limit a caller passes
MaxRows == 2
MaxLimit == 2

\* MATCH_THRESHOLD (line 9), limit=100 of process.extract (line 64) and
\* head(10) of the available applications (line 190)
MATCH_THRESHOLD == 82
EXTRACT_LIMIT == 100
TOP_APPS == 10

\* The threads that run tool calls: one on a server that runs the calls one at
\* a time, two on a server that runs them on a thread pool
SeqCallers == {1}
ConcCallers == {1, 2}
Tools == {"search_materials", "get_applications", "search_by_application"}

\* n as a fixed-point number with one decimal
Tenths(n) == 10 * n

NaN == << >>
IsNa(x) == x = NaN
JsonNull == << >>

Names == {"RTV 566", "RTV 567"}
\* TML, WVR, CVCM of a row: WVR = 0, WVR missing, WVR > TML
Measurements ==
    { [TML |-> 10, WVR |-> <<0>>,  CVCM |-> 1],
      [TML |-> 7,  WVR |-> NaN,    CVCM |-> 0],
      [TML |-> 12, WVR |-> <<13>>, CVCM |-> 2] }
Usages == { NaN, <<"T", "A">> }
Applications == { <<"a">>, <<"t", "a">>, <<".">>, <<"x">> }
MaxTmlValues == {5, 10}
MaxCvcmValues == {1}
Limits == 1..MaxLimit
\* WRatio scores: at the threshold, a fraction above it, an exact match
ScoreValues == {Tenths(82), Tenths(82) + 3, Tenths(100)}

CsvRow(i, n, m, u) ==
    [ID |-> i, Sample_Material |-> n, MFR |-> "GE",
     TML |-> m.TML, CVCM |-> m.CVCM, WVR |-> m.WVR, Material_Usage |-> u]

CsvFiles(maxRows) ==
    UNION { { [i \in 1..k |-> CsvRow(i, f[i][1], f[i][2], f[i][3])] :
                f \in [1..k -> Names \X Measurements \X Usages] } : k \in 0..maxRows }

-----------------------------------------------------------------------------
(* Python values held by the global and by the local df *)

PyNone == [tag |-> "None", rows |-> << >>, text |-> ""]
PyFrame(rows) == [tag |-> "frame", rows |-> rows, text |-> ""]
PyStr(text) == [tag |-> "str", rows |-> << >>, text |-> text]

LoadError == "Error: Unable to load outgassing data - [Errno 2] No such file or directory"

\* pd.read_csv: one frame row per file row, labelled by a RangeIndex from 0
ReadCsv(file) == [i \in 1..Len(file) |-> file[i] @@ [index |-> i - 1]]

NoCall == [op |-> "none"]

-----------------------------------------------------------------------------
(* Sequence helpers *)

Min(a, b) == IF a <= b THEN a ELSE b
Max(a, b) == IF a >= b THEN a ELSE b

\* s[mask]: the rows whose position is in keep, in order
RECURSIVE Mask(_, _, _)
Mask(s, keep, i) ==
    IF i > Len(s) THEN << >>
    ELSE (IF i \in keep THEN <<s[i]>> ELSE << >>) \o Mask(s, keep, i + 1)


\* Series.dropna().unique(): the values that are not NaN, in first-seen order
RECURSIVE Unique(_, _)
Unique(s, seen) ==
    IF s = << >> THEN << >>
    ELSE IF IsNa(Head(s)) \/ Head(s) \in seen THEN Unique(Tail(s), seen)
    ELSE <<Head(s)>> \o Unique(Tail(s), seen \cup {Head(s)})

\* The orders an argsort of keys in descending order may produce.  pandas
\* sort_values and value_counts sort with kind = "quicksort", which numpy
\* documents as not stable: positions with equal keys come out in any order.
ArgsortDescending(keys) ==
    { o \in [DOMAIN keys -> DOMAIN keys] :
        /\ \A i, j \in DOMAIN keys : i # j => o[i] # o[j]
        /\ \A i \in DOMAIN keys : i > 1 => keys[o[i - 1]] >= keys[o[i]] }

\* The one stable descending order (rapidfuzz process.extract keeps the
\* choices' order among equal scores)
StableDescending(keys) ==
    LET before(i) == Cardinality({j \in DOMAIN keys :
                        keys[j] > keys[i] \/ (keys[j] = keys[i] /\ j < i)})
    IN  [k \in DOMAIN keys |-> CHOOSE i \in DOMAIN keys : before(i) = k - 1]

Take(s, order) == [i \in DOMAIN order |-> s[order[i]]]

\* head() that forgets to cut
DfHeadUncut(s, n) == s

\* DataFrame.head(n)
DfHead(s, n) ==
    IF n >= 0 THEN SubSeq(s, 1, Min(n, Len(s)))
    ELSE SubSeq(s, 1, Max(0, Len(s) + n))

-----------------------------------------------------------------------------
(* load_outgassing_data, lines 16-30, one action per step a caller takes *)

\* A tool is invoked; it starts with df = load_outgassing_data()
Call(p, o) ==
    /\ pc[p] = "idle"
    /\ pc' = [pc EXCEPT ![p] = "load_check"]
    /\ op' = [op EXCEPT ![p] = o]
    /\ df' = [df EXCEPT ![p] = PyNone]
    /\ afterFailure' = [afterFailure EXCEPT ![p] = everFailed]
    /\ last' = NoCall
    /\ UNCHANGED <<disk, fileOk, outgassing_data, loads, everFailed>>

\* lines 19-20: if outgassing_data is not None: return outgassing_data
LoadCheck(p) ==
    /\ pc[p] = "load_check"
    /\ IF outgassing_data.tag # "None"
       THEN /\ df' = [df EXCEPT ![p] = outgassing_data]
            /\ pc' = [pc EXCEPT ![p] = "body"]
       ELSE /\ df' = df
            /\ pc' = [pc EXCEPT ![p] = "load_read"]
    /\ UNCHANGED <<disk, fileOk, outgassing_data, loads, everFailed, op, afterFailure, last>>

\* lines 24-28: outgassing_data = pd.read_csv(local_file), or the error string
LoadRead(p) ==
    /\ pc[p] = "load_read"
    /\ IF fileOk
       THEN /\ outgassing_data' = PyFrame(ReadCsv(disk))
            /\ loads' = loads + 1
            /\ pc' = [pc EXCEPT ![p] = "load_return"]
            /\ UNCHANGED <<df, everFailed>>
       ELSE /\ df' = [df EXCEPT ![p] = PyStr(LoadError)]
            /\ everFailed' = TRUE
            /\ pc' = [pc EXCEPT ![p] = "body"]
            /\ UNCHANGED <<outgassing_data, loads>>
    /\ UNCHANGED <<disk, fileOk, op, afterFailure, last>>

\* line 30: return outgassing_data
LoadReturn(p) ==
    /\ pc[p] = "load_return"
    /\ df' = [df EXCEPT ![p] = outgassing_data]
    /\ pc' = [pc EXCEPT ![p] = "body"]
    /\ UNCHANGED <<disk, fileOk, outgassing_data, loads, everFailed, op, afterFailure, last>>

\* The environment: the CSV file appears or disappears.  Only read_csv looks
\* at the file, so its changes are followed while the global is still None.
FileChange ==
    /\ outgassing_data.tag = "None"
    /\ fileOk' = ~fileOk
    /\ UNCHANGED <<disk, outgassing_data, loads, everFailed, pc, op, df, afterFailure, last>>

\* A tool returns: its locals are gone, the caller is idle again and the call
\* is on record
Return(p, args, enriched, results, response) ==
    /\ pc' = [pc EXCEPT ![p] = "idle"]
    /\ op' = [op EXCEPT ![p] = "none"]
    /\ df' = [df EXCEPT ![p] = PyNone]
    /\ afterFailure' = [afterFailure EXCEPT ![p] = FALSE]
    /\ last' = [op |-> op[p], caller |-> p, afterFailure |-> afterFailure[p],
                args |-> args, enriched |-> enriched,
                results |-> results, response |-> response]
    /\ UNCHANGED <<disk, fileOk, loads, everFailed>>

PlainText(text) == [kind |-> "text", body |-> text]
JsonDumps(dict) == [kind |-> "json", body |-> dict]

-----------------------------------------------------------------------------
(* get_applications, lines 150-164 *)

Column(rows, c) == [i \in DOMAIN rows |-> rows[i][c]]

\* lines 59-60 (and 157-158, 181-182): the load failed and its error string
\* is returned as it is, before any argument is read
ReturnLoadError(p) ==
    /\ df[p].tag = "str"
    /\ Return(p, << >>, << >>, << >>, PlainText(df[p].text))
    /\ UNCHANGED outgassing_data

GetApplications(p) ==
    /\ pc[p] = "body"
    /\ op[p] = "get_applications"
    /\ IF df[p].tag = "str"
       THEN ReturnLoadError(p)
       ELSE LET unique_apps == Unique(Column(df[p].rows, "Material_Usage"), {})
            IN  /\ Return(p, << >>, << >>, << >>,
                          JsonDumps([total_applications |-> Len(unique_apps),
                                     applications |-> unique_apps]))
                /\ UNCHANGED outgassing_data

-----------------------------------------------------------------------------
(* calculate_adjusted_tml, lines 32-40 *)

\* df['TML'] - df['WVR'] on one row: NaN when WVR is NaN
FloatSub(a, b) == IF IsNa(a) \/ IsNa(b) THEN NaN ELSE <<a[1] - b[1]>>

\* x <= y on floats: False when x is NaN
FloatLe(x, y) == ~IsNa(x) /\ x[1] <= y

\* np.select(conditions, choices, default): row by row, the first choice whose
\* condition holds, else the default
NpSelect(conditions, choices, default) ==
    [i \in DOMAIN default |-> IF conditions[i] THEN choices[i] ELSE default[i]]

\* The adjusted TML with WVR left out
calculate_adjusted_tml_without_wvr(rows) == [i \in DOMAIN rows |-> <<rows[i].TML>>]

calculate_adjusted_tml(rows) ==
    LET conditions == [i \in DOMAIN rows |-> ~IsNa(rows[i].WVR)]
        choices == [i \in DOMAIN rows |-> FloatSub(<<rows[i].TML>>, rows[i].WVR)]
        default == [i \in DOMAIN rows |-> <<rows[i].TML>>]
    IN  NpSelect(conditions, choices, default)

-----------------------------------------------------------------------------
(* The frames a tool works on: the cached frame df and the local results *)

\* results = df[mask].copy(): a new frame; the cached one is left as it is
BoolIndexCopy(cache, keep) == [cache |-> cache, results |-> Mask(cache, keep, 1)]

\* Column assignment on a results frame that is a view of the cached frame:
\* the column is written through to the cached rows as well
AssignColumnThrough(h, col, vals) ==
    [cache |-> [j \in DOMAIN h.cache |->
                  IF \E i \in DOMAIN h.results : h.results[i].index = h.cache[j].index
                  THEN (col :> vals[CHOOSE i \in DOMAIN h.results :
                                      h.results[i].index = h.cache[j].index]) @@ h.cache[j]
                  ELSE h.cache[j]],
     results |-> [i \in DOMAIN h.results |-> (col :> vals[i]) @@ h.results[i]]]

\* results[col] = vals: the column is set on the rows of results
AssignColumn(h, col, vals) ==
    [h EXCEPT !.results = [i \in DOMAIN @ |-> (col :> vals[i]) @@ @[i]]]

PassFlags(h, max_tml, max_cvcm) ==
    LET adjusted_tml == calculate_adjusted_tml(h.results)
        tml_pass == [i \in DOMAIN adjusted_tml |-> FloatLe(adjusted_tml[i], max_tml)]
        cvcm_pass == [i \in DOMAIN h.results |-> h.results[i].CVCM <= max_cvcm]
    IN  [adjusted_tml |-> adjusted_tml, tml_pass |-> tml_pass, cvcm_pass |-> cvcm_pass]

\* results[results['tml_pass'] & results['cvcm_pass']]
Compliant(rows) ==
    Mask(rows, {i \in DOMAIN rows : rows[i].tml_pass /\ rows[i].cvcm_pass}, 1)

Limits_(a) == [max_tml |-> a.max_tml, max_cvcm |-> a.max_cvcm]

-----------------------------------------------------------------------------
(* search_materials, lines 43-147 *)

\* process.extract(material, choices, scorer=fuzz.WRatio, limit=...): the
\* (choice, score, index) triples of the best-scoring choices, best first.
\* wratio[n] is WRatio of the processed query and the processed name n.
ProcessExtract(choices, wratio, limit) ==
    LET scores == [i \in DOMAIN choices |-> wratio[choices[i]]]
        order == StableDescending(scores)
        all == [k \in DOMAIN choices |->
                   <<choices[order[k]], scores[order[k]], order[k] - 1>>]
    IN  SubSeq(all, 1, Min(limit, Len(all)))

\* line 67: {match[0]: match[1] for match in matched_materials
\*           if match[1] > MATCH_THRESHOLD}
AtLeastThreshold(score) == score >= Tenths(MATCH_THRESHOLD)

AboveThreshold(score) == score > Tenths(MATCH_THRESHOLD)

MatchScores(matched) ==
    LET good == {k \in DOMAIN matched : AboveThreshold(matched[k][2])}
        keys == {matched[k][1] : k \in good}
        lastOf(n) == CHOOSE k \in good :
                        /\ matched[k][1] = n
                        /\ \A j \in good : matched[j][1] = n => j <= k
    IN  [n \in keys |-> matched[lastOf(n)][2]]

\* lines 63-72: the matched rows, copied, with their match_score column
SearchMaterialsMatch(cache, wratio) ==
    LET choices == Column(cache, "Sample_Material")
        matched_materials == ProcessExtract(choices, wratio, EXTRACT_LIMIT)
        match_scores == MatchScores(matched_materials)
        h == BoolIndexCopy(cache, {i \in DOMAIN cache : choices[i] \in DOMAIN match_scores})
    IN  AssignColumn(h, "match_score",
            [i \in DOMAIN h.results |-> match_scores[h.results[i].Sample_Material]])

\* lines 85-89: the compliance columns
SearchMaterialsFlags(h, a) ==
    LET f == PassFlags(h, a.max_tml, a.max_cvcm)
    IN  AssignColumn(AssignColumn(AssignColumn(h,
            "adjusted_tml", f.adjusted_tml), "tml_pass", f.tml_pass), "cvcm_pass", f.cvcm_pass)

\* int(row['match_score']): truncation to an integer
IntOfScore(score) == score \div 10

\* lines 119-135
MaterialDict(row, include_details) ==
    LET base == [sample_material |-> row.Sample_Material,
                 match_score |-> IntOfScore(row.match_score),
                 tml |-> row.TML, cvcm |-> row.CVCM,
                 material_usage |-> row.Material_Usage,
                 tml_pass |-> row.tml_pass, cvcm_pass |-> row.cvcm_pass]
    IN  IF include_details
        THEN base @@ [id |-> row.ID, manufacturer |-> row.MFR,
                      wvr |-> IF IsNa(row.WVR) THEN JsonNull ELSE row.WVR]
        ELSE base

\* lines 91-147, on the flagged rows in the order sort_values left them
SearchMaterialsFinish(sorted, a) ==
    LET total_matched == Len(sorted)
        total_compliant == Len(Compliant(sorted))
        filtered == IF a.compliant_only THEN Compliant(sorted) ELSE sorted
    IN  IF a.compliant_only /\ Len(filtered) = 0
        THEN [results |-> << >>,
              response |-> JsonDumps(
                [query |-> a.material, limits |-> Limits_(a), results |-> << >>,
                 total_matched |-> total_matched, total_compliant |-> 0,
                 results_returned |-> 0,
                 message |-> "Found N materials matching, but none meet compliance limits"])]
        ELSE LET results_truncated == Len(filtered) > a.limit
                 results == DfHead(filtered, a.limit)
                 materials_list ==
                     [i \in DOMAIN results |-> MaterialDict(results[i], a.include_details)]
             IN  [results |-> results,
                  response |-> JsonDumps(
                    [query |-> a.material, limits |-> Limits_(a),
                     results |-> materials_list,
                     total_matched |-> total_matched,
                     total_compliant |-> total_compliant,
                     results_returned |-> Len(materials_list),
                     results_truncated |-> results_truncated,
                     compliant_only |-> a.compliant_only,
                     message |-> "Found N materials matching (M compliant)"])]

\* The query string; what it does to the search is wratio, its score per name
Materials == {"<material>"}

SearchMaterialsArgs(wratio, max_tml, max_cvcm) ==
    [material : Materials, max_tml : {max_tml}, max_cvcm : {max_cvcm},
     limit : Limits, compliant_only : BOOLEAN, include_details : BOOLEAN,
     wratio : {wratio}]

\* The arguments are the tool's parameters and wratio, the scores rapidfuzz
\* gives the names for the query.  (\E x \in {e} binds x to the value of e.)
SearchMaterialsBody(p) ==
    /\ df[p].tag = "frame"
    /\ \E wratio \in [Names -> ScoreValues] :
       \E h \in {SearchMaterialsMatch(df[p].rows, wratio)} :
       \E max_tml \in MaxTmlValues, max_cvcm \in MaxCvcmValues :
         IF Len(h.results) = 0
         THEN \E a \in SearchMaterialsArgs(wratio, max_tml, max_cvcm) :
              /\ Return(p, a, << >>, << >>, JsonDumps(
                    [query |-> a.material, limits |-> Limits_(a),
                     results |-> << >>, total_matched |-> 0,
                     total_compliant |-> 0, results_returned |-> 0,
                     message |-> "No materials found matching the search term"]))
              /\ outgassing_data' = PyFrame(h.cache)
         ELSE \E g \in {SearchMaterialsFlags(h, [max_tml |-> max_tml, max_cvcm |-> max_cvcm])} :
              \E order \in ArgsortDescending(Column(g.results, "match_score")) :
              \E sorted \in {Take(g.results, order)} :
              \E a \in SearchMaterialsArgs(wratio, max_tml, max_cvcm) :
              \E r \in {SearchMaterialsFinish(sorted, a)} :
                /\ Return(p, a, g.results, r.results, r.response)
                /\ outgassing_data' = PyFrame(g.cache)

SearchMaterials(p) ==
    /\ pc[p] = "body"
    /\ op[p] = "search_materials"
    /\ IF df[p].tag = "str" THEN ReturnLoadError(p) ELSE SearchMaterialsBody(p)

-----------------------------------------------------------------------------
(* search_by_application, lines 167-230 *)

Lower(c) == CASE c = "T" -> "t" [] c = "A" -> "a" [] OTHER -> c

\* One pattern character against one text character under re.IGNORECASE:
\* "." matches any character, a letter matches itself in either case
ReCharMatch(pc_, c) == pc_ = "." \/ Lower(pc_) = Lower(c)

\* re.search(pattern, text, re.IGNORECASE) for patterns of letters and "."
ReSearch(pattern, text) ==
    \E k \in 0..(Len(text) - Len(pattern)) :
        \A i \in DOMAIN pattern : ReCharMatch(pattern[i], text[k + i])

\* Series.str.contains(pat, case=False, na=False); regex=True is the default
StrContains(text, pat) == IF IsNa(text) THEN FALSE ELSE ReSearch(pat, text)

\* lines 209-222
ApplicationDict(row) ==
    [sample_material |-> row.Sample_Material, id |-> row.ID,
     manufacturer |-> row.MFR, tml |-> row.TML, cvcm |-> row.CVCM,
     wvr |-> IF IsNa(row.WVR) THEN JsonNull ELSE row.WVR,
     material_usage |-> row.Material_Usage,
     tml_pass |-> row.tml_pass, cvcm_pass |-> row.cvcm_pass]

\* lines 184-186: the rows of the category, copied
SearchByApplicationMatch(cache, application) ==
    BoolIndexCopy(cache,
        {i \in DOMAIN cache : StrContains(cache[i].Material_Usage, application)})

\* lines 200-204: the compliance columns
SearchByApplicationFlags(h, a) ==
    LET f == PassFlags(h, a.max_tml, a.max_cvcm)
    IN  AssignColumn(AssignColumn(h, "tml_pass", f.tml_pass), "cvcm_pass", f.cvcm_pass)

\* lines 206-230
SearchByApplicationFinish(results, a) ==
    LET compliant_results == Compliant(results)
        materials_list ==
            [i \in DOMAIN compliant_results |-> ApplicationDict(compliant_results[i])]
    IN  [results |-> compliant_results,
         response |-> JsonDumps(
            [query |-> a.application, limits |-> Limits_(a),
             results |-> materials_list, total_found |-> Len(results),
             showing_only_compliant |-> TRUE])]

\* line 190: df['Material Usage'].value_counts(): the distinct usages and how
\* often each occurs
UsageCounts(cache) ==
    LET usage == Column(cache, "Material_Usage")
        values == Unique(usage, {})
    IN  [values |-> values,
         counts |-> [k \in DOMAIN values |->
                        Cardinality({i \in DOMAIN usage : usage[i] = values[k]})]]

SearchByApplicationArgs ==
    [application : Applications, max_tml : MaxTmlValues, max_cvcm : MaxCvcmValues]

SearchByApplicationBody(p) ==
    /\ df[p].tag = "frame"
    /\ \E a \in SearchByApplicationArgs :
       \E h \in {SearchByApplicationMatch(df[p].rows, a.application)} :
         IF Len(h.results) = 0
         THEN \E vc \in {UsageCounts(df[p].rows)} :
              \E order \in ArgsortDescending(vc.counts) :
                /\ Return(p, a, << >>, << >>, JsonDumps(
                     [query |-> a.application, limits |-> Limits_(a),
                      results |-> << >>, total_found |-> 0,
                      message |-> "No materials found for application",
                      available_applications |->
                          DfHead(Take(vc.values, order), TOP_APPS)]))
                /\ outgassing_data' = PyFrame(h.cache)
         ELSE \E g \in {SearchByApplicationFlags(h, a)} :
              \E r \in {SearchByApplicationFinish(g.results, a)} :
                /\ Return(p, a, g.results, r.results, r.response)
                /\ outgassing_data' = PyFrame(g.cache)

SearchByApplication(p) ==
    /\ pc[p] = "body"
    /\ op[p] = "search_by_application"
    /\ IF df[p].tag = "str" THEN ReturnLoadError(p) ELSE SearchByApplicationBody(p)

-----------------------------------------------------------------------------
(* Specifications *)

\* A server that runs one call at a time, with the CSV file in place
Init ==
    /\ disk \in CsvFiles(MaxRows)
    /\ fileOk = TRUE
    /\ outgassing_data = PyNone
    /\ loads = 0
    /\ everFailed = FALSE
    /\ pc = [p \in SeqCallers |-> "idle"]
    /\ op = [p \in SeqCallers |-> "none"]
    /\ df = [p \in SeqCallers |-> PyNone]
    /\ afterFailure = [p \in SeqCallers |-> FALSE]
    /\ last = NoCall

Next ==
    \/ \E p \in DOMAIN pc, o \in Tools : Call(p, o)
    \/ \E p \in DOMAIN pc : LoadCheck(p)
    \/ \E p \in DOMAIN pc : LoadRead(p)
    \/ \E p \in DOMAIN pc : LoadReturn(p)
    \/ \E p \in DOMAIN pc : SearchMaterials(p)
    \/ \E p \in DOMAIN pc : GetApplications(p)
    \/ \E p \in DOMAIN pc : SearchByApplication(p)

Spec == Init /\ [][Next]_vars

\* A server that runs calls on two threads, over one CSV file that may be
\* missing when a call tries to read it
ExampleCsv ==
    << CsvRow(1, "RTV 566", [TML |-> 10, WVR |-> <<0>>, CVCM |-> 1], <<"T", "A">>),
       CsvRow(2, "RTV 567", [TML |-> 7, WVR |-> NaN, CVCM |-> 0], NaN) >>

InitConc ==
    /\ disk = ExampleCsv
    /\ fileOk \in BOOLEAN
    /\ outgassing_data = PyNone
    /\ loads = 0
    /\ everFailed = FALSE
    /\ pc = [p \in ConcCallers |-> "idle"]
    /\ op = [p \in ConcCallers |-> "none"]
    /\ df = [p \in ConcCallers |-> PyNone]
    /\ afterFailure = [p \in ConcCallers |-> FALSE]
    /\ last = NoCall

NextConc ==
    \/ Next
    \/ FileChange

SpecConc == InitConc /\ [][NextConc]_vars

-----------------------------------------------------------------------------
(* Properties *)

Returned(o) == last.op = o /\ last.response.kind = "json"

Body == last.response.body

\* adjusted TML of a row or result entry from its TML and WVR, as specified
AdjustedTml(tml, wvr) == IF wvr = NaN THEN tml ELSE tml - wvr[1]

\* C1: on every structured return of search_materials with a positive limit,
\* results_returned <= limit, total_matched >= total_compliant, and
\* results_returned = min(total_compliant, limit) when compliant_only, else
\* min(total_matched, limit).
C1_ResultCounts ==
    (Returned("search_materials") /\ last.args.limit > 0) =>
        /\ Body.results_returned = Len(Body.results)
        /\ Body.results_returned <= last.args.limit
        /\ Body.total_matched >= Body.total_compliant
        /\ Body.results_returned =
              Min(IF last.args.compliant_only THEN Body.total_compliant
                  ELSE Body.total_matched, last.args.limit)

\* C1 witness: a compliant-only search with more compliant matches than limit
C1_Witness ==
    /\ Returned("search_materials")
    /\ last.args.compliant_only
    /\ Body.total_compliant > last.args.limit
    /\ Body.results_returned = last.args.limit

\* C2: once a load has failed, every query called afterwards returns the load
\* failure (the load is not tried again).
C2_FailureIsTerminal ==
    (last.op # "none" /\ last.afterFailure) =>
        last.response = PlainText(LoadError)

\* C3: the dataset is loaded at most once, however the callers interleave.
C3_SingleLoad == loads <= 1

\* C4: the adjusted TML of the entries search_by_application returns is
\* non-decreasing in result order.
C4_SortedByAdjustedTml ==
    Returned("search_by_application") =>
        \A i, j \in DOMAIN Body.results :
            i < j => AdjustedTml(Body.results[i].tml, Body.results[i].wvr)
                       <= AdjustedTml(Body.results[j].tml, Body.results[j].wvr)

\* C5: every query returns a structured result, also when the dataset cannot
\* be loaded; never a bare string.
C5_StructuredFailure ==
    last.op # "none" => last.response.kind = "json"

\* C6 as claimed: the match_score of the returned entries is non-increasing
\* and strictly greater than MATCH_THRESHOLD.
C6_ScoresAboveThreshold ==
    Returned("search_materials") =>
        /\ \A i \in DOMAIN Body.results : Body.results[i].match_score > MATCH_THRESHOLD
        /\ \A i, j \in DOMAIN Body.results :
              i < j => Body.results[i].match_score >= Body.results[j].match_score

\* C6 as amended: the reported match_score is the WRatio score truncated to an
\* integer; it is non-increasing in result order, the WRatio score of every
\* returned row is strictly greater than MATCH_THRESHOLD, and the reported
\* match_score is at least MATCH_THRESHOLD.
C6_ScoresTruncated ==
    Returned("search_materials") =>
        /\ Len(Body.results) = Len(last.results)
        /\ \A i \in DOMAIN Body.results :
              /\ last.results[i].match_score > Tenths(MATCH_THRESHOLD)
              /\ Tenths(Body.results[i].match_score) <= last.results[i].match_score
              /\ last.results[i].match_score < Tenths(Body.results[i].match_score + 1)
              /\ Body.results[i].match_score >= MATCH_THRESHOLD
        /\ \A i, j \in DOMAIN Body.results :
              i < j => /\ Body.results[i].match_score >= Body.results[j].match_score
                       /\ last.results[i].match_score >= last.results[j].match_score

\* C6 witness: two entries with different scores, the second reported as 82
C6_Witness ==
    /\ Returned("search_materials")
    /\ Len(Body.results) >= 2
    /\ Body.results[1].match_score > Body.results[2].match_score
    /\ Body.results[2].match_score = MATCH_THRESHOLD

\* The application string occurs in the usage, compared case-insensitively
LiteralContains(text, pat) ==
    /\ text # NaN
    /\ \E k \in 0..(Len(text) - Len(pat)) :
          \A i \in DOMAIN pat : Lower(pat[i]) = Lower(text[k + i])

\* C7: search_by_application returns exactly the compliant rows whose Material
\* Usage contains the application string (case-insensitive, absent usage never
\* matching), each flagged tml_pass and cvcm_pass.
C7_ExactCompliantCategory ==
    Returned("search_by_application") =>
        /\ \A i \in DOMAIN Body.results :
              Body.results[i].tml_pass /\ Body.results[i].cvcm_pass
        /\ { Body.results[i].id : i \in DOMAIN Body.results }
             = { disk[k].ID : k \in
                   { k \in DOMAIN disk :
                       /\ LiteralContains(disk[k].Material_Usage, last.args.application)
                       /\ AdjustedTml(disk[k].TML, disk[k].WVR) <= last.args.max_tml
                       /\ disk[k].CVCM <= last.args.max_cvcm } }

\* C8: in both search modes, for every row the search flags, tml_pass is true
\* iff TML - WVR (TML when WVR is absent) <= max_tml and cvcm_pass is true iff
\* CVCM <= max_cvcm; search_materials' adjusted_tml column is that value.
C8_PassFlags ==
    (Returned("search_materials") \/ Returned("search_by_application")) =>
        \A i \in DOMAIN last.enriched :
            LET row == last.enriched[i]
                adj == AdjustedTml(row.TML, row.WVR)
            IN  /\ row.tml_pass = (adj <= last.args.max_tml)
                /\ row.cvcm_pass = (row.CVCM <= last.args.max_cvcm)
                /\ last.op = "search_materials" => row.adjusted_tml = <<adj>>

\* C8 witness: a category search that flags a row whose WVR exceeds its TML
\* (negative adjusted TML, passing) next to a row that fails the TML limit
C8_Witness ==
    /\ Returned("search_by_application")
    /\ \E i \in DOMAIN last.enriched :
          /\ last.enriched[i].WVR # NaN
          /\ AdjustedTml(last.enriched[i].TML, last.enriched[i].WVR) < 0
          /\ last.enriched[i].tml_pass
    /\ \E i \in DOMAIN last.enriched :
          /\ last.enriched[i].WVR = <<0>>
          /\ ~last.enriched[i].tml_pass

\* C9: once the dataset is cached, no step of any call, in any interleaving,
\* changes the cached frame: same rows, same columns, same values.
C9_CacheUnchanged ==
    [][outgassing_data.tag = "frame" => outgassing_data' = outgassing_data]_vars

\* C9 witness: a name search has added its columns to its matched rows and the
\* cached frame is still the one read from the file
C9_Witness ==
    /\ Returned("search_materials")
    /\ Len(last.enriched) > 0
    /\ outgassing_data = PyFrame(ReadCsv(disk))

\* C10: rows of search_materials' result with equal match scores are in
\* dataset order, and a row cut by the limit never precedes, in the dataset, a
\* returned row of the same score.
C10_StableTies ==
    Returned("search_materials") =>
        /\ \A i, j \in DOMAIN last.results :
              (i < j /\ last.results[i].match_score = last.results[j].match_score)
                 => last.results[i].index < last.results[j].index
        /\ \A i \in DOMAIN last.results, k \in DOMAIN last.enriched :
              LET r == last.results[i]
                  q == last.enriched[k]
              IN  ( /\ q.match_score = r.match_score
                    /\ last.args.compliant_only => (q.tml_pass /\ q.cvcm_pass)
                    /\ \A j \in DOMAIN last.results : last.results[j].index # q.index )
                  => r.index < q.index

=============================================================================
